---- MODULE Spec2Model ----
(***************************************************************************)
(* Model of the Reddit data-collection engine of DigiPatch_Reddit:         *)
(*   src/digipatchapp.py         main, initialize_reddit,                  *)
(*                               collect_reddit_data (posts and comments)  *)
(*   src/app_with_user_input.py  the earlier single-subreddit variant of   *)
(*                               collect_reddit_data (posts only)          *)
(* One action per loop step of the code.  The provider (PRAW) is the       *)
(* environment: every remote call may succeed or raise, chosen with \E.    *)
(***************************************************************************)
EXTENDS Integers, Sequences, FiniteSets, TLC

(* ------------------------------ bounds --------------------------------- *)
\* most sorting methods selected in the form
MaxMethods == 2
\* largest fixed post limit entered in the form
MaxPostLimit == 2
\* most posts the provider yields during one run, over all listings
MaxPosts == 2

(* ----------------------------- constants ------------------------------- *)
\* the retry budget of spec.md section 4.1; src/ defines no such constant
MAX_RETRIES == 5

(* Python's None and a present value: an optional is a sequence of length  *)
(* at most one, so that None compares with every other value.              *)
None == <<>>
Some(v) == <<v>>

Apps == {"digipatchapp", "app_with_user_input"}

\* the lists of subreddit names entered in the form
SubredditLists == { <<"r1">>, <<"r1", "r2">> }
\* the options of the multiselect, in the order the form lists them
MethodNames == <<"hot", "new", "top", "controversial", "rising">>

\* what a failing remote call raises: looking a subreddit up, requesting or
\* iterating a listing, fetching a comment tree
SubredditFailures == {"NotFound"}
ListingFailures == {"NotFound", "RateLimited"}
CommentFailures == {"RateLimited"}

Tombstones == {"[deleted]", "[removed]"}

(* The comment objects the provider can hand out, and the flattened comment *)
(* trees (post.comments.list()) a post can have.                            *)
cText == [author |-> Some("alice"), score |-> 3, body |-> "text", created_utc |-> 100]
cReply == [author |-> Some("bob"), score |-> 2, body |-> "reply", created_utc |-> 200]
cDeleted == [author |-> None, score |-> 1, body |-> "[deleted]", created_utc |-> 300]
cRemoved == [author |-> Some("carol"), score |-> 0, body |-> "[removed]", created_utc |-> 400]

CommentTrees ==
  { <<>>, <<cText>>, <<cDeleted, cText>>, <<cText, cRemoved, cReply>> }

(* ------------------------------- state --------------------------------- *)
VARIABLES
  app,               \* which of the two programs runs
  subreddits,        \* form input: the list of subreddit names
  sorting_methods,   \* form input: the selected sorting methods
  post_limit,        \* form input: Some(n) or None ("Maximum")
  collect_comments,  \* form input: the checkbox
  comment_limit,     \* form input: Some(n) or None
  pc,                \* where the script is
  reddit,            \* what initialize_reddit returned
  data,              \* main's variable data: None until collect_reddit_data returns
  exc,               \* the exception that left collect_reddit_data, or None
  si,                \* position of the for loop over subreddits
  mi,                \* position of the for loop over sorting_methods
  yielded,           \* posts the current listing has yielded
  combined_data,     \* the rows (all_data in app_with_user_input.py)
  total_iterations,  \* Some(n) or None
  current_iteration,
  progress_bar,      \* the values given to st.progress / progress_bar.progress
  progress_text,     \* the counts given to progress_text.text
  post,              \* local: id of the post processed last, or None
  comment_list,      \* local: the comments kept for that post
  error,             \* the st.error message the latest step showed, or None
  request,           \* the remote request the latest step made, or None
  exact,             \* history: so far the provider never failed on a subreddit,
                     \* a listing or a post, and every listing yielded exactly
                     \* post_limit posts
  stop_signal        \* the caller's stop flag

vars ==
  << app, subreddits, sorting_methods, post_limit, collect_comments, comment_limit,
     pc, reddit, data, exc, si, mi, yielded, combined_data, total_iterations,
     current_iteration, progress_bar, progress_text, post, comment_list, error,
     request, exact, stop_signal >>

inputs ==
  << app, subreddits, sorting_methods, post_limit, collect_comments, comment_limit >>

(* ------------------------------ helpers -------------------------------- *)
Prefix(s, n) == SubSeq(s, 1, n)

Limits(max) == {None} \cup {Some(n) : n \in 1..max}

\* the comment limits entered in the form: fewer than, as many as and more
\* than the comments of the trees above, or "Maximum"
CommentLimits == {None, Some(1), Some(2)}

\* datetime.datetime.utcfromtimestamp(t)
utcfromtimestamp(t) == [utc_seconds |-> t]

\* all_comments[:comment_limit] / all_comments
ApplyCommentLimit(all_comments, limit) ==
  IF limit # None
    THEN SubSeq(all_comments, 1, IF limit[1] < Len(all_comments) THEN limit[1] ELSE Len(all_comments))
    ELSE all_comments

\* str(comment.author) if comment.author else None
CommentAuthor(comment) ==
  IF comment.author # None THEN Some(comment.author[1]) ELSE None

CommentRow(subreddit_name, post_id, sorting_method, comment) ==
  [ subreddit |-> subreddit_name, post_id |-> post_id, sorting_method |-> sorting_method,
    comment_author |-> CommentAuthor(comment),
    comment_score |-> Some(comment.score),
    comment_body |-> Some(comment.body),
    comment_timestamp |-> Some(utcfromtimestamp(comment.created_utc)) ]

NullRow(subreddit_name, post_id, sorting_method) ==
  [ subreddit |-> subreddit_name, post_id |-> post_id, sorting_method |-> sorting_method,
    comment_author |-> None, comment_score |-> None,
    comment_body |-> None, comment_timestamp |-> None ]

\* faulty variant: a post without kept comments gets no placeholder row
PostRows_NoPlaceholder(subreddit_name, post_id, sorting_method, kept) ==
  [i \in 1..Len(kept) |-> CommentRow(subreddit_name, post_id, sorting_method, kept[i])]

\* the rows one post adds when comments are collected
PostRows(subreddit_name, post_id, sorting_method, kept) ==
  IF kept # <<>>
    THEN [i \in 1..Len(kept) |-> CommentRow(subreddit_name, post_id, sorting_method, kept[i])]
    ELSE << NullRow(subreddit_name, post_id, sorting_method) >>

\* a / b of Python, kept as a fraction
Divide(a, b) == [num |-> a, den |-> b]
FracLeq(x, y) == x.num * y.den <= y.num * x.den
FracMin(x, y) == IF FracLeq(x, y) THEN x ELSE y
One == [num |-> 1, den |-> 1]
Zero == [num |-> 0, den |-> 1]

\* faulty variant: the fraction is reported without the cap at 1.0
ProgressValue_Uncapped(cur, total) == Divide(cur, total)

\* min(current_iteration / total_iterations, 1.0)
ProgressValue(cur, total) == FracMin(Divide(cur, total), One)

TotalIterations ==
  IF post_limit # None
    THEN Some(Len(subreddits) * Len(sorting_methods) * post_limit[1])
    ELSE None

\* st.error(...): where the failure was caught and what was raised
Error(site, kind) == Some([site |-> site, kind |-> kind])

\* one remote request: the code calls the provider once and never again
Request(site, outcome) == Some([site |-> site, attempts |-> 1, outcome |-> outcome])

\* an exception nothing in collect_reddit_data catches
Raise(site, kind) == Some([site |-> site, kind |-> kind])

\* `if reddit:` -- a praw.Reddit object is truthy, None is not
Truthy(r) == r # "None"

(* ------------------------------- Init ---------------------------------- *)
Init ==
  /\ app \in Apps
  /\ sorting_methods \in {Prefix(MethodNames, n) : n \in 0..MaxMethods}
  /\ IF app = "digipatchapp"
       THEN /\ subreddits \in SubredditLists
            /\ post_limit \in Limits(MaxPostLimit)
            /\ collect_comments \in BOOLEAN
            /\ comment_limit \in IF collect_comments THEN CommentLimits ELSE {None}
       ELSE /\ subreddits = <<"r1">>
            /\ post_limit \in Limits(MaxPostLimit) \ {None}
            /\ collect_comments = FALSE
            /\ comment_limit = None
  /\ pc = "main"
  /\ reddit = "unset"
  /\ data = None
  /\ exc = None
  /\ si = 0
  /\ mi = 0
  /\ yielded = 0
  /\ combined_data = <<>>
  /\ total_iterations = None
  /\ current_iteration = 0
  /\ progress_bar = <<>>
  /\ progress_text = <<>>
  /\ post = None
  /\ comment_list = <<>>
  /\ error = None
  /\ request = None
  /\ exact = TRUE
  /\ stop_signal = FALSE

(* ------------------------------- main ---------------------------------- *)
\* the button is pressed with a credential or the subreddit field left empty
Main_MissingInput ==
  /\ pc = "main"
  /\ pc' = "end"
  /\ error' = Error("input", "missing")
  /\ UNCHANGED << inputs, reddit, data, exc, si, mi, yielded, combined_data,
                  total_iterations, current_iteration, progress_bar, progress_text,
                  post, comment_list, request, exact, stop_signal >>

\* praw.Reddit(...) succeeds, succeeds read-only, or raises
initialize_reddit ==
  /\ pc = "main"
  /\ pc' = "initialized"
  /\ \/ /\ reddit' = "authenticated"
        /\ error' = None
     \/ /\ reddit' = "read_only"
        /\ error' = Error("auth", "read_only")
     \/ /\ reddit' = "None"
        /\ error' = Error("auth", "exception")
  /\ UNCHANGED << inputs, data, exc, si, mi, yielded, combined_data,
                  total_iterations, current_iteration, progress_bar, progress_text,
                  post, comment_list, request, exact, stop_signal >>

\* `if reddit:` is false: nothing is collected
Main_NoReddit ==
  /\ pc = "initialized"
  /\ ~Truthy(reddit)
  /\ pc' = "end"
  /\ error' = None
  /\ UNCHANGED << inputs, reddit, data, exc, si, mi, yielded, combined_data,
                  total_iterations, current_iteration, progress_bar, progress_text,
                  post, comment_list, request, exact, stop_signal >>

(* ------------------ digipatchapp.collect_reddit_data ------------------- *)
\* main calls collect_reddit_data; the function's first lines
collect_reddit_data ==
  /\ pc = "initialized"
  /\ Truthy(reddit)
  /\ app = "digipatchapp"
  /\ pc' = "subreddits"
  /\ combined_data' = <<>>
  /\ total_iterations' = TotalIterations
  /\ progress_bar' = IF TotalIterations # None THEN << Zero >> ELSE <<>>
  /\ progress_text' = <<>>
  /\ current_iteration' = 0
  /\ error' = None
  /\ UNCHANGED << inputs, reddit, data, exc, si, mi, yielded, post, comment_list,
                  request, exact, stop_signal >>

\* for subreddit_name in subreddits: ... reddit.subreddit(subreddit_name)
ForSubreddit ==
  /\ app = "digipatchapp"
  /\ pc = "subreddits"
  /\ request' = None
  /\ \/ /\ si < Len(subreddits)
        /\ si' = si + 1
        /\ mi' = 0
        /\ \/ /\ pc' = "methods"
              /\ error' = None
              /\ UNCHANGED exact
           \/ \E kind \in SubredditFailures :
                /\ error' = Error("subreddit", kind)
                /\ pc' = "subreddits"
                /\ exact' = FALSE
        /\ UNCHANGED data
     \/ /\ si = Len(subreddits)
        /\ pc' = "returned"
        /\ data' = Some(combined_data)
        /\ error' = None
        /\ UNCHANGED << si, mi, exact >>
  /\ UNCHANGED << inputs, reddit, exc, yielded, combined_data, total_iterations,
                  current_iteration, progress_bar, progress_text, post, comment_list,
                  stop_signal >>

\* for sorting_method in sorting_methods: ... getattr(subreddit, sorting_method)(limit=post_limit)
ForSortingMethod ==
  /\ app = "digipatchapp"
  /\ pc = "methods"
  /\ \/ /\ mi < Len(sorting_methods)
        /\ mi' = mi + 1
        /\ yielded' = 0
        /\ \/ /\ pc' = "posts"
              /\ request' = Request("listing", "ok")
              /\ error' = None
              /\ UNCHANGED exact
           \/ \E kind \in ListingFailures :
                /\ request' = Request("listing", kind)
                /\ error' = Error("listing", kind)
                /\ pc' = "methods"
                /\ exact' = FALSE
     \/ /\ mi = Len(sorting_methods)
        /\ pc' = "subreddits"
        /\ request' = None
        /\ error' = None
        /\ UNCHANGED << mi, yielded, exact >>
  /\ UNCHANGED << inputs, reddit, data, exc, si, combined_data, total_iterations,
                  current_iteration, progress_bar, progress_text, post, comment_list,
                  stop_signal >>

\* progress_bar.progress(min(current_iteration / total_iterations, 1.0)) or
\* progress_text.text(f"Processed {current_iteration} posts...")
ReportProgress ==
  /\ current_iteration' = current_iteration + 1
  /\ IF total_iterations # None
       THEN /\ progress_bar' =
                 Append(progress_bar, ProgressValue(current_iteration + 1, total_iterations[1]))
            /\ UNCHANGED progress_text
       ELSE /\ progress_text' = Append(progress_text, current_iteration + 1)
            /\ UNCHANGED progress_bar

\* faulty variant: with comments disabled the row is built but never appended
NewRows_NoAppend(subreddit_name, post_id, sorting_method, kept) ==
  IF collect_comments
    THEN PostRows(subreddit_name, post_id, sorting_method, kept)
    ELSE <<>>

\* the rows the loop body appends for one post, given the comments kept
NewRows(subreddit_name, post_id, sorting_method, kept) ==
  IF collect_comments
    THEN PostRows(subreddit_name, post_id, sorting_method, kept)
    ELSE << NullRow(subreddit_name, post_id, sorting_method) >>

\* the body of the loop over posts, once the post's fields are read
ProcessPost(kept) ==
  /\ comment_list' = kept
  /\ combined_data' =
       combined_data \o NewRows(subreddits[si], yielded + 1, sorting_methods[mi], kept)
  /\ ReportProgress
  /\ yielded' = yielded + 1
  /\ pc' = "posts"
  /\ UNCHANGED << exc, exact >>

\* for post in tqdm(posts): one step of the iteration and the body of the loop
ForPost ==
  /\ app = "digipatchapp"
  /\ pc = "posts"
  /\ \/ \* the listing is exhausted
        /\ pc' = "methods"
        /\ exact' = (exact /\ post_limit = Some(yielded))
        /\ request' = Request("listing", "ok")
        /\ error' = None
        /\ UNCHANGED << exc, yielded, combined_data, current_iteration, progress_bar,
                        progress_text, post, comment_list >>
     \/ \* fetching the next page of the lazy listing raises: nothing catches it
        \E kind \in ListingFailures :
          /\ request' = Request("listing", kind)
          /\ exc' = Raise("listing", kind)
          /\ pc' = "raised"
          /\ error' = None
          /\ exact' = FALSE
          /\ UNCHANGED << yielded, combined_data, current_iteration, progress_bar,
                          progress_text, post, comment_list >>
     \/ \* the listing yields a post
        /\ current_iteration < MaxPosts
        /\ post' = Some(yielded + 1)
        /\ \/ \* reading a field of the post raises: nothing catches it
              /\ exc' = Raise("post", "Other")
              /\ pc' = "raised"
              /\ request' = Request("listing", "ok")
              /\ error' = None
              /\ exact' = FALSE
              /\ UNCHANGED << yielded, combined_data, current_iteration, progress_bar,
                              progress_text, comment_list >>
           \/ /\ ~collect_comments
              /\ request' = Request("listing", "ok")
              /\ error' = None
              /\ ProcessPost(<<>>)
           \/ /\ collect_comments
              /\ request' = Request("comments", "ok")
              /\ error' = None
              /\ \E all_comments \in CommentTrees :
                   ProcessPost(ApplyCommentLimit(all_comments, comment_limit))
           \/ /\ collect_comments
              /\ \E kind \in CommentFailures :
                   /\ request' = Request("comments", kind)
                   /\ error' = Error("comments", kind)
              /\ ProcessPost(<<>>)
  /\ UNCHANGED << inputs, reddit, data, si, mi, total_iterations, stop_signal >>

\* the caller raises the stop flag while a listing is being iterated
RaiseStop ==
  /\ pc = "posts"
  /\ ~stop_signal
  /\ stop_signal' = TRUE
  /\ UNCHANGED << inputs, pc, reddit, data, exc, si, mi, yielded, combined_data,
                  total_iterations, current_iteration, progress_bar, progress_text,
                  post, comment_list, error, request, exact >>

(* --------------- app_with_user_input.collect_reddit_data --------------- *)
\* except APIException / except Exception: st.error(...); return []
UI_ReturnEmpty(kind) ==
  /\ error' = Error("collect", kind)
  /\ data' = Some(<<>>)
  /\ pc' = "returned"

PostData(post_id, sorting_method) ==
  [post_id |-> post_id, sorting_method |-> sorting_method]

\* main calls collect_reddit_data: subreddit = reddit.subreddit(...); all_data = []
\* (when reddit.subreddit raises, all_data is never bound and [] is returned)
UI_collect_reddit_data ==
  /\ pc = "initialized"
  /\ Truthy(reddit)
  /\ app = "app_with_user_input"
  /\ si' = 1
  /\ mi' = 0
  /\ combined_data' = <<>>
  /\ \/ /\ pc' = "methods"
        /\ error' = None
        /\ UNCHANGED data
        /\ UNCHANGED exact
     \/ \E kind \in SubredditFailures :
          /\ UI_ReturnEmpty(kind)
          /\ exact' = FALSE
  /\ UNCHANGED << inputs, reddit, exc, yielded, total_iterations,
                  current_iteration, progress_bar, progress_text, post, comment_list,
                  request, stop_signal >>

\* for sorting_method in sorting_methods: ... ; return all_data
UI_ForSortingMethod ==
  /\ app = "app_with_user_input"
  /\ pc = "methods"
  /\ \/ /\ mi < Len(sorting_methods)
        /\ mi' = mi + 1
        /\ yielded' = 0
        /\ \/ /\ pc' = "posts"
              /\ request' = Request("listing", "ok")
              /\ error' = None
              /\ UNCHANGED << data, exact >>
           \/ \E kind \in ListingFailures :
                /\ request' = Request("listing", kind)
                /\ UI_ReturnEmpty(kind)
                /\ exact' = FALSE
     \/ /\ mi = Len(sorting_methods)
        /\ pc' = "returned"
        /\ data' = Some(combined_data)
        /\ request' = None
        /\ error' = None
        /\ UNCHANGED << mi, yielded, exact >>
  /\ UNCHANGED << inputs, reddit, exc, si, combined_data, total_iterations,
                  current_iteration, progress_bar, progress_text, post, comment_list,
                  stop_signal >>

\* for post in tqdm(posts): all_data.append(post_data)
UI_ForPost ==
  /\ app = "app_with_user_input"
  /\ pc = "posts"
  /\ \/ /\ pc' = "methods"
        /\ exact' = (exact /\ post_limit = Some(yielded))
        /\ request' = Request("listing", "ok")
        /\ error' = None
        /\ UNCHANGED << data, yielded, combined_data, current_iteration, post >>
     \/ \E kind \in ListingFailures :
          /\ request' = Request("listing", kind)
          /\ UI_ReturnEmpty(kind)
          /\ exact' = FALSE
          /\ UNCHANGED << yielded, combined_data, current_iteration, post >>
     \/ /\ current_iteration < MaxPosts
        /\ post' = Some(yielded + 1)
        /\ request' = Request("listing", "ok")
        /\ \/ /\ UI_ReturnEmpty("Other")
              /\ exact' = FALSE
              /\ UNCHANGED << yielded, combined_data, current_iteration >>
           \/ /\ combined_data' =
                   Append(combined_data, PostData(yielded + 1, sorting_methods[mi]))
              /\ current_iteration' = current_iteration + 1
              /\ yielded' = yielded + 1
              /\ pc' = "posts"
              /\ error' = None
              /\ UNCHANGED << data, exact >>
  /\ UNCHANGED << inputs, reddit, exc, si, mi, total_iterations, progress_bar,
                  progress_text, comment_list, stop_signal >>

\* 'Collect Data' is pressed again after a run has ended: the script starts
\* over with the same form.  Nothing in main keeps or clears the rows of the
\* run before; combined_data still shows them until the engine is invoked.
Main_Rerun ==
  /\ pc \in {"returned", "raised", "end"}
  /\ pc' = "main"
  /\ reddit' = "unset"
  /\ data' = None
  /\ exc' = None
  /\ si' = 0
  /\ mi' = 0
  /\ yielded' = 0
  /\ total_iterations' = None
  /\ current_iteration' = 0
  /\ progress_bar' = <<>>
  /\ progress_text' = <<>>
  /\ post' = None
  /\ comment_list' = <<>>
  /\ error' = None
  /\ request' = None
  /\ exact' = TRUE
  /\ stop_signal' = FALSE
  /\ UNCHANGED << inputs, combined_data >>

Next ==
  \/ Main_MissingInput
  \/ initialize_reddit
  \/ Main_NoReddit
  \/ collect_reddit_data
  \/ ForSubreddit
  \/ ForSortingMethod
  \/ ForPost
  \/ RaiseStop
  \/ UI_collect_reddit_data
  \/ UI_ForSortingMethod
  \/ UI_ForPost
  \/ Main_Rerun

Spec == Init /\ [][Next]_vars

(* ------------------------------ claims --------------------------------- *)
Ended == pc \in {"returned", "raised"}

\* the posts recorded in a sequence of rows of one community
PostsIn(rows) == { <<rows[i].sorting_method, rows[i].post_id>> : i \in DOMAIN rows }

\* C1: when the provider never fails and every listing yields exactly
\* post_limit posts, a run over a single community with at least one sorting
\* method records exactly len(sorting_methods) * post_limit posts, and returns
\* exactly that many rows when comments are not collected.
C1_PostCount ==
  ( /\ pc = "returned"
    /\ exact
    /\ Len(subreddits) = 1
    /\ sorting_methods # <<>>
    /\ post_limit # None )
  => /\ data # None
     /\ Cardinality(PostsIn(data[1])) = Len(sorting_methods) * post_limit[1]
     /\ ~collect_comments => Len(data[1]) = Len(sorting_methods) * post_limit[1]

\* a run over one community with two methods and post_limit 1 returns two rows
C1_Witness ==
  /\ pc = "returned"
  /\ exact
  /\ app = "digipatchapp"
  /\ Len(subreddits) = 1
  /\ Len(sorting_methods) = 2
  /\ post_limit = Some(1)
  /\ ~collect_comments
  /\ Len(data[1]) = 2

\* the rows of the post processed last, while its listing is still iterated
RowsOfPost ==
  LET Mine(r) == /\ r.subreddit = subreddits[si]
                 /\ r.sorting_method = sorting_methods[mi]
                 /\ r.post_id = yielded
  IN  SelectSeq(combined_data, Mine)

AfterPost == app = "digipatchapp" /\ pc = "posts" /\ yielded > 0

\* C2: a processed post contributes exactly N rows when N >= 1 comments were
\* kept for it, each row carrying one of them in order, and exactly one row
\* with the four comment fields null when none was kept or comments are not
\* collected; never zero rows.
C2_RowsPerPost ==
  AfterPost =>
    LET mine == RowsOfPost
        n == Len(comment_list)
    IN  IF collect_comments /\ n >= 1
          THEN /\ Len(mine) = n
               /\ \A i \in 1..n :
                    /\ mine[i].comment_body = Some(comment_list[i].body)
                    /\ mine[i].comment_author = comment_list[i].author
                    /\ mine[i].comment_score = Some(comment_list[i].score)
                    /\ mine[i].comment_timestamp # None
          ELSE /\ Len(mine) = 1
               /\ mine[1].comment_author = None
               /\ mine[1].comment_score = None
               /\ mine[1].comment_body = None
               /\ mine[1].comment_timestamp = None

\* a post with two kept comments has just added its two rows after another post's row
C2_Witness ==
  /\ AfterPost
  /\ collect_comments
  /\ Len(comment_list) = 2
  /\ Len(RowsOfPost) = 2
  /\ Len(combined_data) = 3

\* C3: no row has a comment body equal to "[deleted]" or "[removed]".
C3_NoTombstones ==
  app = "digipatchapp" =>
    \A i \in DOMAIN combined_data :
      \A t \in Tombstones : combined_data[i].comment_body # Some(t)

\* C4: when a run ends after rows were appended, whatever failed on the way,
\* the caller receives those rows.
C4_RowsReturned ==
  (Ended /\ combined_data # <<>>) => (data # None /\ data[1] = combined_data)

\* C5: a request that fails as rate-limited has been attempted MAX_RETRIES
\* times when it is given up, and the failure never leaves the run.
C5_RetryBudget ==
  app = "digipatchapp" =>
    /\ (request # None /\ request[1].outcome = "RateLimited")
         => request[1].attempts = MAX_RETRIES
    /\ exc # None => exc[1].kind # "RateLimited"

\* C6: a community that is not found never ends the run while later
\* communities remain to be processed.
C6_NotFoundSkipsCommunity ==
  (exc # None /\ exc[1].kind = "NotFound") => si = Len(subreddits)

\* C7: a failure while processing a post (reading its fields, fetching its
\* comments) is caught and no row is recorded for that post.
C7_FailedPostHasNoRow ==
  /\ exc # None => exc[1].site # "post"
  /\ (AfterPost /\ request # None /\ request[1].site = "comments"
        /\ request[1].outcome \in CommentFailures)
       => RowsOfPost = <<>>

\* C8: with a session in the read-only condition, collect_reddit_data is
\* never invoked.
C8_ReadOnlyBlocksCollection ==
  reddit = "read_only" => pc \in {"initialized", "end"}

\* C9: once the stop signal is raised between two posts, no further post is
\* processed.
C9_StopObserved ==
  [][stop_signal => current_iteration' = current_iteration]_vars

\* C10: with a fixed post limit the values given to the progress bar lie in
\* [0,1] and never decrease, however many posts the provider yields; without
\* a post limit no fraction is reported and the text reports 1, 2, 3, ...
C10_Progress ==
  app = "digipatchapp" =>
    IF post_limit # None
      THEN /\ progress_text = <<>>
           /\ \A i \in DOMAIN progress_bar :
                /\ progress_bar[i].den > 0
                /\ 0 <= progress_bar[i].num
                /\ progress_bar[i].num <= progress_bar[i].den
           /\ \A i \in 1..(Len(progress_bar) - 1) :
                FracLeq(progress_bar[i], progress_bar[i + 1])
           /\ pc \in {"subreddits", "methods", "posts", "returned", "raised"}
                => Len(progress_bar) = current_iteration + 1
      ELSE /\ progress_bar = <<>>
           /\ progress_text = [i \in 1..current_iteration |-> i]

\* the provider has yielded more posts than total_iterations and the bar shows 1.0
C10_Witness ==
  /\ total_iterations # None
  /\ current_iteration > total_iterations[1]
  /\ Len(progress_bar) = current_iteration + 1
  /\ progress_bar[Len(progress_bar)] = One

\* without a post limit two posts were processed and counted
C10_WitnessCount ==
  /\ app = "digipatchapp"
  /\ post_limit = None
  /\ progress_text = <<1, 2>>

\* C11: every step leaves the buffer of rows unchanged or extends it at the
\* end, within a run and from one invocation of the engine to the next.
C11_AppendOnly ==
  [][ app = "digipatchapp" =>
        /\ Len(combined_data) <= Len(combined_data')
        /\ SubSeq(combined_data', 1, Len(combined_data)) = combined_data ]_vars

====
